---- MODULE Spec2Model ----
(***************************************************************************)
(* Model of the leeforge/schema resource installer (cli/): the Assistant   *)
(* Detector (utils/detect.ts), the Resource Catalog and Copy Engine        *)
(* (utils/copy.ts, in its static-list and its directory-scan variant) and  *)
(* the Install Orchestrator (commands/install.ts).                         *)
(*                                                                         *)
(* Strings are atoms here, so every string predicate of the code           *)
(* (includes, endsWith, startsWith, `${name}.md`, sort) is given as a      *)
(* table over the finite universe of names the model uses.                 *)
(***************************************************************************)
EXTENDS Integers, Sequences, FiniteSets, TLC

VARIABLES
  catalog,  \* the asset catalog of the running CLI (fixed for the process)
  target,   \* the target project directory
  request,  \* what this behaviour runs, and may run again: a copy [op, ai,
            \* names] or a command line [op, variant, ai, type, skills, rules, force]
  last,     \* the last call made: its arguments, environment and result
  nenv,     \* edits the user has made in the target directory
  world     \* per assistant, the mkdirs the target's filesystem refuses to an
            \* install command

vars == <<catalog, target, request, last, nenv, world>>

(***************************************************************************)
(* Bounds of the model.                                                    *)
(***************************************************************************)
\* edits the user makes in the target directory in one behaviour
MaxEnv == 1
\* length of an explicit name list passed to a copy
MaxNames == 2
\* the deepest directory the CLI's compiled file is placed in
MaxStartDepth == 11

(***************************************************************************)
(* types/index.ts                                                          *)
(***************************************************************************)
\* the four concrete assistants, in the key order of AI_DIRECTORIES
ConcreteAIs == <<"claude", "cursor", "windsurf", "cline">>

AISet == {ConcreteAIs[i] : i \in 1..Len(ConcreteAIs)}

AI_TYPES == ConcreteAIs \o <<"all">>

AI_DIRECTORIES ==
  [claude |-> ".claude", cursor |-> ".cursor", windsurf |-> ".windsurf", cline |-> ".cline"]

\* join(targetDir, SKILLS_MAPPING[ai]) is the path <<marker directory, "skills">>
SKILLS_MAPPING ==
  [claude |-> <<".claude", "skills">>, cursor |-> <<".cursor", "skills">>,
   windsurf |-> <<".windsurf", "skills">>, cline |-> <<".cline", "skills">>]

RULES_MAPPING ==
  [claude |-> <<".claude", "rules">>, cursor |-> <<".cursor", "rules">>,
   windsurf |-> <<".windsurf", "rules">>, cline |-> <<".cline", "rules">>]

AVAILABLE_SKILLS ==
  <<"schema", "code-detector", "form-developer", "table-developer", "backend-developer">>

AVAILABLE_RULES == <<"schema-rules">>

(***************************************************************************)
(* The universe of names and the string tables.                            *)
(***************************************************************************)
Range(s) == {s[i] : i \in 1..Len(s)}

MarkerDirs == {AI_DIRECTORIES[a] : a \in AISet}

\* names a skill directory of the target or of the catalog may have
SkillNames == Range(AVAILABLE_SKILLS) \cup {"non-existent-skill", ".cache"}

\* names a rule may be asked by, and the files `${name}.md` of them
RuleNames == {"schema-rules", "skill-creator-rules", "non-existent-rule", ".draft", "archive"}

WithMd(name) ==
  CASE name = "schema-rules" -> "schema-rules.md"
    [] name = "skill-creator-rules" -> "skill-creator-rules.md"
    [] name = "non-existent-rule" -> "non-existent-rule.md"
    [] name = ".draft" -> ".draft.md"
    [] name = "archive" -> "archive.md"

RuleFiles == {WithMd(n) : n \in RuleNames} \cup {"notes.txt"}

\* name.endsWith('.md')
EndsWithMd(f) == f \in {WithMd(n) : n \in RuleNames}

\* name.replace(/\.md$/, '')
StripMd(f) == IF EndsWithMd(f) THEN CHOOSE n \in RuleNames : WithMd(n) = f ELSE f

\* name.startsWith('.')
StartsWithDot(n) ==
  n \in {".cache", ".DS_Store", ".claude", ".cursor", ".windsurf", ".cline", ".draft", ".draft.md"}

\* the entries a skill directory may hold
Entries == {"SKILL.md", ".DS_Store", "node_modules", "settings.local.json", "test.txt"}

\* the entries every skill directory of the catalog holds
SourceEntries == {"SKILL.md", ".DS_Store", "node_modules", "settings.local.json"}

\* segment.includes('node_modules'), segment.includes('.DS_Store'),
\* segment.endsWith('.local.json')
IncludesNodeModules(seg) == seg = "node_modules"

IncludesDSStore(seg) == seg = ".DS_Store"

EndsWithLocalJson(seg) == seg = "settings.local.json"

\* Array.prototype.sort() without comparator: UTF-16 code unit order
SortOrder ==
  <<".cache", ".draft", "archive", "backend-developer", "code-detector", "form-developer",
    "non-existent-rule", "non-existent-skill", "schema", "schema-rules",
    "skill-creator-rules", "table-developer">>

Sort(S) == SelectSeq(SortOrder, LAMBDA n : n \in S)

(***************************************************************************)
(* The filesystem.                                                         *)
(*   catalog: where the CLI is installed and what its asset directories    *)
(*            hold.                                                        *)
(*   target : the project directory, one node per marker directory; a      *)
(*            marker path is absent or a directory.                        *)
(***************************************************************************)
NoTree == [present |-> FALSE, files |-> [e \in Entries |-> "none"]]

EmptyMarker ==
  [kind |-> "absent",
   skills |-> [exists |-> FALSE, items |-> [n \in SkillNames |-> NoTree]],
   rules |-> [exists |-> FALSE, items |-> [f \in RuleFiles |-> "none"]]]

FreshTarget == [m \in MarkerDirs |-> EmptyMarker]

\* the places the CLI runs from: a checkout of the repository, and the
\* README's recommended `npm install -g` (cli/README.md:13-14)
DevRoot == <<"home", "dev", "leeforge_schema", "cli">>

NpmRoot == <<"usr", "lib", "node_modules", "@leeforge", "schema-cli">>

CatalogRoots == {DevRoot, NpmRoot}

\* how the names of a copy without a name list are found: the compiled-in
\* lists (utils/copy.ts) or a scan of the asset directories
Strategies == {"static", "dynamic"}

\* what the skills directory (directories) and the rules directory (files) of
\* the catalog may hold
CatalogContents ==
  { [skillDirs |-> Range(AVAILABLE_SKILLS), ruleFiles |-> {"schema-rules.md"}],
    [skillDirs |-> {"schema", "form-developer", ".cache"},
     ruleFiles |-> {"schema-rules.md", "skill-creator-rules.md", "notes.txt"}] }

\* a catalog: where it is, how it is listed, and for each of its two
\* directories whether it exists, whether it can be read, and the directories
\* and the files in it
Catalog(root, strategy, skillDirs, ruleFiles) ==
  [root |-> root, strategy |-> strategy,
   skillsDirExists |-> TRUE, skillsDirReadable |-> TRUE,
   skillDirs |-> skillDirs, skillsDirFiles |-> {},
   rulesDirExists |-> TRUE, rulesDirReadable |-> TRUE,
   ruleFiles |-> ruleFiles, rulesDirDirs |-> {}]

Catalogs ==
  { Catalog(r, s, c.skillDirs, c.ruleFiles) :
    r \in CatalogRoots, s \in Strategies, c \in CatalogContents }

(***************************************************************************)
(* utils/copy.ts: the catalog paths and the catalog listing.               *)
(***************************************************************************)
\* SKILLS_DIR: join(REPO_ROOT, 'skills') in the static variant,
\* join(CLI_ROOT, 'assets', 'skills') in the scanning variant
SKILLS_DIR ==
  catalog.root \o (IF catalog.strategy = "static" THEN <<"skills">> ELSE <<"assets", "skills">>)

\* RULES_DIR: REPO_ROOT in the static variant, join(ASSETS_DIR, 'rules') in the other
RULES_DIR ==
  catalog.root \o (IF catalog.strategy = "static" THEN <<>> ELSE <<"assets", "rules">>)

\* what a scan returns when the directory is missing (the early return) or
\* readdir rejects (the catch)
scanFailed_staticList(kind) == IF kind = "skills" THEN AVAILABLE_SKILLS ELSE AVAILABLE_RULES

scanFailed(kind) == <<>>

\* the filters of the two scans, on a Dirent
skillListed_hiddenToo(isDirectory, name) == isDirectory

skillListed(isDirectory, name) == isDirectory /\ ~StartsWithDot(name)

ruleListed(isFile, name) == isFile /\ EndsWithMd(name)

\* readdir(SKILLS_DIR) filtered, sorted
scanAvailableSkills ==
  IF ~catalog.skillsDirExists THEN scanFailed("skills")
  ELSE IF ~catalog.skillsDirReadable THEN scanFailed("skills")
  ELSE Sort({n \in catalog.skillDirs : skillListed(TRUE, n)}
              \cup {n \in catalog.skillsDirFiles : skillListed(FALSE, n)})

\* readdir(RULES_DIR) filtered, the extension stripped, sorted
scanAvailableRules ==
  IF ~catalog.rulesDirExists THEN scanFailed("rules")
  ELSE IF ~catalog.rulesDirReadable THEN scanFailed("rules")
  ELSE Sort({StripMd(f) : f \in {g \in catalog.ruleFiles : ruleListed(TRUE, g)}
                               \cup {g \in catalog.rulesDirDirs : ruleListed(FALSE, g)}})

\* variant: an empty list counts as no list
skillsToCopy_emptyIsNone(skillNames) ==
  IF skillNames.given /\ skillNames.list # <<>> THEN skillNames.list
  ELSE IF catalog.strategy = "static" THEN AVAILABLE_SKILLS ELSE scanAvailableSkills

\* skillNames || (static list | scan): an explicit list, the empty one
\* included, is used as it is
skillsToCopy(skillNames) ==
  IF skillNames.given THEN skillNames.list
  ELSE IF catalog.strategy = "static" THEN AVAILABLE_SKILLS ELSE scanAvailableSkills

rulesToCopy(ruleNames) ==
  IF ruleNames.given THEN ruleNames.list
  ELSE IF catalog.strategy = "static" THEN AVAILABLE_RULES ELSE scanAvailableRules

\* existsSync(join(SKILLS_DIR, skillName))
SkillSourceExists(skillName) ==
  catalog.skillsDirExists /\ skillName \in catalog.skillDirs

\* existsSync(join(RULES_DIR, `${ruleName}.md`))
RuleSourceExists(ruleName) ==
  catalog.rulesDirExists /\ WithMd(ruleName) \in catalog.ruleFiles

(***************************************************************************)
(* fs/promises: mkdir(path, {recursive: true}) and cp.                     *)
(***************************************************************************)
\* mkdir -p of <<marker, sub>> rejects when a directory has to be created and
\* the environment refuses it (EACCES, ENOSPC, EROFS, ENOTDIR)
MkdirRejects(tgt, path, envFault) ==
  LET node == tgt[path[1]] IN
    envFault /\ (node.kind = "absent" \/ ~node[path[2]].exists)

Mkdir(tgt, path) ==
  [tgt EXCEPT ![path[1]] =
     [[@ EXCEPT !.kind = "dir"] EXCEPT ![path[2]] = [@ EXCEPT !.exists = TRUE]]]

\* the filter option of the skill copy, on a source path
CopyFilter_onlyNodeModules(src) ==
  \A i \in 1..Len(src) : ~IncludesNodeModules(src[i])

CopyFilter(src) ==
  /\ \A i \in 1..Len(src) : ~IncludesNodeModules(src[i])
  /\ \A i \in 1..Len(src) : ~IncludesDSStore(src[i])
  /\ ~EndsWithLocalJson(src[Len(src)])

\* cp(src, dest, {recursive: true, force, filter}) of a catalog skill
\* directory onto the tree at dest: a source path the filter refuses is
\* skipped without an error, the root included; an existing file is replaced
\* only under force; what the source does not hold is left alone
CpDir(src, tree, force) ==
  IF ~CopyFilter(src) THEN tree
  ELSE [present |-> TRUE,
        files |-> [e \in Entries |->
                    IF /\ e \in SourceEntries
                       /\ CopyFilter(src \o <<e>>)
                       /\ (tree.files[e] = "none" \/ force)
                    THEN "cat" ELSE tree.files[e]]]

\* the same cp rejecting part-way: the destination directory was made and
\* nothing was copied into it yet (partial), or nothing was touched
CpDirRejected(tree, partial) ==
  IF partial THEN [tree EXCEPT !.present = TRUE] ELSE tree

\* cp(src, dest, {force}) of one rule file
CpFile(content, force) ==
  IF content = "none" \/ force THEN "cat" ELSE content

(***************************************************************************)
(* utils/copy.ts: copySkills, copyRules.                                   *)
(*   names   : [given, list], given = FALSE for undefined                  *)
(*   io      : the environment of the call, [mkdir, cp, partial]: whether  *)
(*             the mkdir is refused, the names whose cp rejects, and what  *)
(*             a rejected cp leaves                                        *)
(* The result is [target, copied, thrown, log]: log holds one entry per    *)
(* name the loop reached, with what became of it (the console line).       *)
(***************************************************************************)
\* the body of both loops, for one name: the two guards that `continue`, and
\* the try/catch around the cp
\* variant: no guard on an existing destination
itemOutcome_overwrite(sourceExists, destExists, force, cpRejects) ==
  IF ~sourceExists THEN "not found"
  ELSE IF cpRejects THEN "failed"
  ELSE "copied"

\* variant: no guard on a missing source, whose cp rejects outside the try
itemOutcome_throwOnMissing(sourceExists, destExists, force, cpRejects) ==
  IF ~sourceExists THEN "thrown"
  ELSE IF destExists /\ ~force THEN "already exists"
  ELSE IF cpRejects THEN "failed"
  ELSE "copied"

\* variant: no try/catch around the cp
itemOutcome_noCatch(sourceExists, destExists, force, cpRejects) ==
  IF ~sourceExists THEN "not found"
  ELSE IF destExists /\ ~force THEN "already exists"
  ELSE IF cpRejects THEN "thrown"
  ELSE "copied"

itemOutcome(sourceExists, destExists, force, cpRejects) ==
  IF ~sourceExists THEN "not found"
  ELSE IF destExists /\ ~force THEN "already exists"
  ELSE IF cpRejects THEN "failed"
  ELSE "copied"

RECURSIVE copySkillsLoop(_, _, _, _)
copySkillsLoop(todo, st, force, io) ==
  IF todo = <<>> \/ st.thrown THEN st
  ELSE
    LET skillName == Head(todo)
        sourcePath == SKILLS_DIR \o <<skillName>>
        dest == st.items[skillName]
        outcome == itemOutcome(SkillSourceExists(skillName), dest.present, force,
                               skillName \in io.cp)
        logged == [st EXCEPT !.log = Append(@, <<skillName, outcome>>)]
        next ==
          CASE outcome = "copied" ->
                 [logged EXCEPT !.items[skillName] = CpDir(sourcePath, dest, force),
                                !.copied = Append(@, skillName)]
            [] outcome = "failed" ->
                 [logged EXCEPT !.items[skillName] = CpDirRejected(dest, io.partial)]
            [] outcome \in {"not found", "already exists"} -> logged
            [] OTHER ->  \* a rejection nothing catches leaves the loop
                 [st EXCEPT !.items[skillName] = CpDirRejected(dest, io.partial),
                            !.thrown = TRUE]
    IN copySkillsLoop(Tail(todo), next, force, io)

copySkills(aiType, tgt, skillNames, force, io) ==
  LET targetPath == SKILLS_MAPPING[aiType] IN
    IF MkdirRejects(tgt, targetPath, io.mkdir)
      THEN [target |-> tgt, copied |-> <<>>, thrown |-> TRUE, log |-> <<>>]
    ELSE
      LET made == Mkdir(tgt, targetPath)
          st == copySkillsLoop(skillsToCopy(skillNames),
                               [items |-> made[targetPath[1]][targetPath[2]].items,
                                copied |-> <<>>, log |-> <<>>, thrown |-> FALSE],
                               force, io)
      IN [target |-> [made EXCEPT ![targetPath[1]][targetPath[2]].items = st.items],
          copied |-> st.copied, thrown |-> st.thrown, log |-> st.log]

RECURSIVE copyRulesLoop(_, _, _, _)
copyRulesLoop(todo, st, force, io) ==
  IF todo = <<>> \/ st.thrown THEN st
  ELSE
    LET ruleName == Head(todo)
        sourceFileName == WithMd(ruleName)
        dest == st.items[sourceFileName]
        outcome == itemOutcome(RuleSourceExists(ruleName), dest # "none", force,
                               ruleName \in io.cp)
        logged == [st EXCEPT !.log = Append(@, <<ruleName, outcome>>)]
        next ==
          CASE outcome = "copied" ->
                 [logged EXCEPT !.items[sourceFileName] = CpFile(dest, force),
                                !.copied = Append(@, ruleName)]
            [] outcome \in {"failed", "not found", "already exists"} -> logged
            [] OTHER -> [st EXCEPT !.thrown = TRUE]
    IN copyRulesLoop(Tail(todo), next, force, io)

copyRules(aiType, tgt, ruleNames, force, io) ==
  LET targetPath == RULES_MAPPING[aiType] IN
    IF MkdirRejects(tgt, targetPath, io.mkdir)
      THEN [target |-> tgt, copied |-> <<>>, thrown |-> TRUE, log |-> <<>>]
    ELSE
      LET made == Mkdir(tgt, targetPath)
          st == copyRulesLoop(rulesToCopy(ruleNames),
                              [items |-> made[targetPath[1]][targetPath[2]].items,
                               copied |-> <<>>, log |-> <<>>, thrown |-> FALSE],
                              force, io)
      IN [target |-> [made EXCEPT ![targetPath[1]][targetPath[2]].items = st.items],
          copied |-> st.copied, thrown |-> st.thrown, log |-> st.log]

(***************************************************************************)
(* utils/detect.ts                                                         *)
(***************************************************************************)
\* existsSync(join(cwd, directory))
MarkerExists(tgt, directory) == tgt[directory].kind # "absent"

\* the loop over Object.entries(AI_DIRECTORIES), in key order
RECURSIVE detectLoop(_, _, _)
detectLoop(tgt, entries, detected) ==
  IF entries = <<>> THEN detected
  ELSE LET aiType == Head(entries) IN
         detectLoop(tgt, Tail(entries),
                    IF MarkerExists(tgt, AI_DIRECTORIES[aiType])
                      THEN Append(detected, aiType) ELSE detected)

\* variant: the first detected assistant is suggested whenever there is one
suggestedFor_first(detected) ==
  IF Len(detected) >= 1 THEN detected[1] ELSE "null"

suggestedFor(detected) ==
  IF Len(detected) = 1 THEN detected[1]
  ELSE IF Len(detected) > 1 THEN "all"
  ELSE "null"

\* variant: the markers are visited in the order a sorted directory listing
\* gives them
detectAIType_listingOrder(tgt) ==
  LET detected == detectLoop(tgt, <<"claude", "cline", "cursor", "windsurf">>, <<>>)
  IN [detected |-> detected, suggested |-> suggestedFor(detected)]

detectAIType(tgt) ==
  LET detected == detectLoop(tgt, ConcreteAIs, <<>>)
  IN [detected |-> detected, suggested |-> suggestedFor(detected)]

hasAIType(aiType, tgt) == MarkerExists(tgt, AI_DIRECTORIES[aiType])

\* const aiPath = join(cwd, AI_DIRECTORIES[aiType]);
\* if (!existsSync(aiPath)) await mkdir(aiPath, {recursive: true}); return aiPath
\* envFault: the environment refuses the mkdir
\* variant: the directory is made anew whether or not it exists
ensureAIDirectory_recreate(aiType, tgt, envFault) ==
  LET directory == AI_DIRECTORIES[aiType]
  IN IF envFault
       THEN [target |-> tgt, path |-> <<>>, thrown |-> TRUE]
     ELSE [target |-> [tgt EXCEPT ![directory] = [EmptyMarker EXCEPT !.kind = "dir"]],
           path |-> <<directory>>, thrown |-> FALSE]

ensureAIDirectory(aiType, tgt, envFault) ==
  LET directory == AI_DIRECTORIES[aiType]
      aiPath == <<directory>>
  IN IF aiType \notin AISet  \* join(cwd, undefined) throws a TypeError
       THEN [target |-> tgt, path |-> <<>>, thrown |-> TRUE]
     ELSE IF MarkerExists(tgt, directory)
       THEN [target |-> tgt, path |-> aiPath, thrown |-> FALSE]
     ELSE IF envFault
       THEN [target |-> tgt, path |-> <<>>, thrown |-> TRUE]
     ELSE [target |-> [tgt EXCEPT ![directory].kind = "dir"],
           path |-> aiPath, thrown |-> FALSE]

\* a name list that was not given
Undefined == [given |-> FALSE, list |-> <<>>]

\* the environment never refuses an operation
NoFault == [mkdir |-> FALSE, cp |-> {}, partial |-> FALSE]

(***************************************************************************)
(* utils/copy.ts: installResources.  io = [skills, rules], the environment *)
(* of each of the two copies.  calls lists the copies that were invoked.   *)
(***************************************************************************)
NotRun(tgt) == [target |-> tgt, copied |-> <<>>, thrown |-> FALSE, log |-> <<>>]

\* the element of a singleton: { e : x \in {v} } names the value v as x
The(S) == CHOOSE x \in S : TRUE

\* variant: the rule copy runs whatever the resource type
includesRule_always(resourceType) == TRUE

\* resourceType === 'skill' || resourceType === 'both'
includesSkill(resourceType) == resourceType \in {"skill", "both"}

\* resourceType === 'rule' || resourceType === 'both'
includesRule(resourceType) == resourceType \in {"rule", "both"}

installResources(aiType, resourceType, tgt, options, io) ==
  LET doSkills == includesSkill(resourceType) IN
  The({
    \* a rejection of copySkills leaves installResources before the second if
    LET doRules == ~s.thrown /\ includesRule(resourceType) IN
    The({ [target |-> r.target, skills |-> s.copied, rules |-> r.copied,
           thrown |-> s.thrown \/ r.thrown,
           calls |-> (IF doSkills THEN <<"copySkills">> ELSE <<>>)
                       \o (IF doRules THEN <<"copyRules">> ELSE <<>>)] :
          r \in { IF doRules
                    THEN copyRules(aiType, s.target, options.rules, options.force, io.rules)
                  ELSE NotRun(s.target) } }) :
    s \in { IF doSkills
              THEN copySkills(aiType, tgt, options.skills, options.force, io.skills)
            ELSE NotRun(tgt) } })

(***************************************************************************)
(* commands/install.ts: installCommand, in its two variants.               *)
(*   options : the command line, [variant, ai, type, skills, rules, force];*)
(*             "none" is an option that was not given                      *)
(*   answers : what the user answers to each prompt that is asked          *)
(*   envs    : per assistant, the environment of the mkdirs and the copies *)
(* The result is [target, exit, report, uncaught]: report holds one entry  *)
(* per assistant the loop reached.                                         *)
(***************************************************************************)
QuietEnv == [ensure |-> FALSE, skills |-> NoFault, rules |-> NoFault]

\* variant: no try/catch around the body of the loop
assistantOutcome_noCatch(ensureThrown, installThrown) ==
  IF ensureThrown \/ installThrown THEN "thrown" ELSE "installed"

\* the try/catch around the body of the loop over the assistants
assistantOutcome(ensureThrown, installThrown) ==
  IF ensureThrown \/ installThrown THEN "failed" ELSE "installed"

\* the body of the loop for one assistant: what it leaves of the target, and
\* the entry of the report
installFor(aiType, tgt, resourceType, options, envs) ==
  LET env == IF aiType \in AISet THEN envs[aiType] ELSE QuietEnv IN
  The({
    The({ [target |-> r.target, ai |-> aiType,
           outcome |-> assistantOutcome(e.thrown, r.thrown),
           skills |-> r.skills, rules |-> r.rules,
           calls |-> <<"ensureAIDirectory">> \o r.calls] :
          r \in { IF e.thrown
                    THEN [target |-> e.target, skills |-> <<>>, rules |-> <<>>,
                          thrown |-> FALSE, calls |-> <<>>]
                  ELSE installResources(aiType, resourceType, e.target, options, env) } }) :
    e \in { ensureAIDirectory(aiType, tgt, env.ensure) } })

RECURSIVE installLoop(_, _, _, _, _)
installLoop(todo, st, resourceType, options, envs) ==
  IF todo = <<>> \/ st.uncaught THEN st
  ELSE
    The({ installLoop(Tail(todo),
                      [target |-> done.target,
                       report |-> Append(st.report,
                                         [f \in DOMAIN done \ {"target"} |-> done[f]]),
                       uncaught |-> done.outcome \notin {"installed", "failed"}],
                      resourceType, options, envs) :
          done \in { installFor(Head(todo), st.target, resourceType, options, envs) } })

Exit(tgt, why) == [target |-> tgt, exit |-> why, report |-> <<>>, uncaught |-> FALSE]

Installed(st) ==
  [target |-> st.target, exit |-> "complete", report |-> st.report, uncaught |-> st.uncaught]

\* the single-select variant
installCommand_single(options, answers, tgt, envs) ==
  LET detection == detectAIType(tgt)
      confirmed == IF detection.suggested # "null" /\ answers.confirm
                     THEN detection.suggested ELSE "none"
      aiType == IF options.ai # "none" THEN options.ai
                ELSE IF confirmed # "none" THEN confirmed
                ELSE answers.selected
      resourceType == IF options.type # "none" THEN options.type
                      ELSE IF answers.selectedType # "none" THEN answers.selectedType
                      ELSE "both"
      aiTypes == IF aiType = "all" THEN <<"claude", "cursor", "windsurf", "cline">>
                 ELSE <<aiType>>
  IN IF aiType = "none" THEN Exit(tgt, "no AI type selected")
     ELSE IF options.type # "none" /\ options.type \notin {"skill", "rule", "both"}
       THEN Exit(tgt, "invalid resource type")
     ELSE Installed(installLoop(SelectSeq(aiTypes, LAMBDA a : a # "all"),
                                [target |-> tgt, report |-> <<>>, uncaught |-> FALSE],
                                resourceType,
                                [skills |-> options.skills, rules |-> options.rules,
                                 force |-> options.force],
                                envs))

\* the multi-select variant
installCommand_multi(options, answers, tgt, envs) ==
  LET selectedAITypes ==
        IF options.ai # "none"
          THEN (IF options.ai = "all" THEN <<"claude", "cursor", "windsurf", "cline">>
                ELSE <<options.ai>>)
        ELSE answers.aiTypes
      typed == options.type # "none"
      installSkills0 == IF typed THEN options.type \in {"skill", "both"}
                        ELSE "skills" \in answers.resourceTypes
      installRules0 == IF typed THEN options.type \in {"rule", "both"}
                       ELSE "rules" \in answers.resourceTypes
      skillsAsked == ~options.skills.given /\ installSkills0
      selectedSkills == IF options.skills.given THEN options.skills
                        ELSE IF skillsAsked /\ answers.skills # <<>>
                          THEN [given |-> TRUE, list |-> answers.skills]
                        ELSE Undefined
      noSkills == skillsAsked /\ answers.skills = <<>>
      installSkills == installSkills0 /\ ~noSkills
      rulesAsked == ~options.rules.given /\ installRules0
      selectedRules == IF options.rules.given THEN options.rules
                       ELSE IF rulesAsked /\ answers.rules # <<>>
                         THEN [given |-> TRUE, list |-> answers.rules]
                       ELSE Undefined
      noRules == rulesAsked /\ answers.rules = <<>>
      installRules == installRules0 /\ ~noRules
      forceOverwrite == options.force \/ answers.force
      resourceType == IF installSkills /\ ~installRules THEN "skill"
                      ELSE IF ~installSkills /\ installRules THEN "rule"
                      ELSE "both"
  IN IF options.ai = "none" /\ answers.aiTypes = <<>>
       THEN Exit(tgt, "no AI type selected")
     ELSE IF ~typed /\ answers.resourceTypes = {}
       THEN Exit(tgt, "no resource type selected")
     ELSE IF noSkills /\ ~answers.confirmNoSkills THEN Exit(tgt, "cancelled")
     ELSE IF noRules /\ ~answers.confirmNoRules THEN Exit(tgt, "cancelled")
     ELSE IF ~answers.confirmInstall THEN Exit(tgt, "cancelled")
     ELSE Installed(installLoop(selectedAITypes,
                                [target |-> tgt, report |-> <<>>, uncaught |-> FALSE],
                                resourceType,
                                [skills |-> selectedSkills, rules |-> selectedRules,
                                 force |-> forceOverwrite],
                                envs))

installCommand(options, answers, tgt, envs) ==
  IF options.variant = "single" THEN installCommand_single(options, answers, tgt, envs)
  ELSE installCommand_multi(options, answers, tgt, envs)

(***************************************************************************)
(* The inputs of the calls.                                                *)
(***************************************************************************)
\* the names an explicit list is made of
RequestSkills == {"schema", "form-developer", "non-existent-skill"}

RequestRules == {"schema-rules", "non-existent-rule"}

RECURSIVE SeqsUpTo(_, _)
SeqsUpTo(S, n) ==
  IF n = 0 THEN {<<>>}
  ELSE LET shorter == SeqsUpTo(S, n - 1)
       IN shorter \cup {Append(q, x) : q \in {r \in shorter : Len(r) = n - 1}, x \in S}

NameArgs(S) == {Undefined} \cup {[given |-> TRUE, list |-> q] : q \in SeqsUpTo(S, MaxNames)}

Requests ==
  {[op |-> "copySkills", ai |-> a, names |-> n] : a \in AISet, n \in NameArgs(RequestSkills)}
    \cup {[op |-> "copyRules", ai |-> a, names |-> n] : a \in AISet, n \in NameArgs(RequestRules)}

\* the environments of a skill copy: nothing refused, the mkdir refused, the
\* cp of one name rejecting before or after it made the destination directory
SkillIOs ==
  {NoFault, [NoFault EXCEPT !.mkdir = TRUE]}
    \cup {[mkdir |-> FALSE, cp |-> {n}, partial |-> p] :
            n \in RequestSkills \cap Range(AVAILABLE_SKILLS), p \in BOOLEAN}

\* the environments of a rule copy
RuleIOs ==
  {NoFault, [NoFault EXCEPT !.mkdir = TRUE]}
    \cup {[mkdir |-> FALSE, cp |-> {n}, partial |-> FALSE] :
            n \in RequestRules \cap Range(AVAILABLE_RULES)}

\* the environments of an install: for the assistants of a set, the mkdir of
\* the marker, of the skills directory or of the rules directory is refused
RefusedFor(S, what) ==
  [a \in AISet |->
     IF a \notin S THEN QuietEnv
     ELSE [ensure |-> what = "marker",
           skills |-> [NoFault EXCEPT !.mkdir = (what = "skills")],
           rules |-> [NoFault EXCEPT !.mkdir = (what = "rules")]]]

InstallEnvs ==
  {RefusedFor({}, "marker")}
    \cup {RefusedFor(S, what) : S \in {{"claude"}, {"cursor", "windsurf"}},
                                 what \in {"marker", "skills", "rules"}}

NoCall == [op |-> "none"]

(***************************************************************************)
(* The state after construction: the catalog paths are resolved once, at   *)
(* module load (copy.ts:41-44); the target directory is fresh.             *)
(***************************************************************************)
Init ==
  /\ catalog \in Catalogs
  /\ target = FreshTarget
  /\ request \in Requests
  /\ last = NoCall
  /\ nenv = 0
  /\ world = RefusedFor({}, "marker")

(***************************************************************************)
(* The user's own edits in the target directory.                           *)
(***************************************************************************)
requestDir ==
  IF request.op = "copySkills" THEN SKILLS_MAPPING[request.ai] ELSE RULES_MAPPING[request.ai]

\* mkdirSync(skillPath, {recursive}); writeFileSync(join(skillPath, 'test.txt'))
UserSkill(m, name) ==
  /\ nenv < MaxEnv
  /\ ~target[m].skills.items[name].present
  /\ target' = [Mkdir(target, <<m, "skills">>) EXCEPT
                  ![m].skills.items[name] =
                     [present |-> TRUE,
                      files |-> [e \in Entries |->
                                   IF e \in {"SKILL.md", "test.txt"} THEN "user" ELSE "none"]]]
  /\ nenv' = nenv + 1
  /\ UNCHANGED <<catalog, request, last, world>>

\* the user's own rule file
UserRule(m, file) ==
  /\ nenv < MaxEnv
  /\ target[m].rules.items[file] = "none"
  /\ target' = [Mkdir(target, <<m, "rules">>) EXCEPT ![m].rules.items[file] = "user"]
  /\ nenv' = nenv + 1
  /\ UNCHANGED <<catalog, request, last, world>>

\* mkdirSync(join(testDir, '.claude'))
UserMarkerDir(m) ==
  /\ nenv < MaxEnv
  /\ target[m].kind = "absent"
  /\ target' = [target EXCEPT ![m].kind = "dir"]
  /\ nenv' = nenv + 1
  /\ UNCHANGED <<catalog, request, last, world>>

(***************************************************************************)
(* The calls of the Copy Engine: the request is run, and may be run again, *)
(* with either force value and in any environment.                         *)
(***************************************************************************)
\* what the directory a copy writes into holds
DirItems(tgt, path) == tgt[path[1]][path[2]].items

CopySkills(force, io) ==
  /\ request.op = "copySkills"
  /\ LET r == copySkills(request.ai, target, request.names, force, io) IN
       /\ target' = r.target
       /\ last' = [op |-> "copySkills", force |-> force, io |-> io,
                   before |-> target[requestDir[1]], after |-> r.target[requestDir[1]],
                   copied |-> r.copied, thrown |-> r.thrown, log |-> r.log]
  /\ UNCHANGED <<catalog, request, nenv, world>>

CopyRules(force, io) ==
  /\ request.op = "copyRules"
  /\ LET r == copyRules(request.ai, target, request.names, force, io) IN
       /\ target' = r.target
       /\ last' = [op |-> "copyRules", force |-> force, io |-> io,
                   before |-> target[requestDir[1]], after |-> r.target[requestDir[1]],
                   copied |-> r.copied, thrown |-> r.thrown, log |-> r.log]
  /\ UNCHANGED <<catalog, request, nenv, world>>

\* the user's edits in the directory the request installs into
UserEdits ==
  \/ \E name \in RequestSkills : request.op = "copySkills" /\ UserSkill(requestDir[1], name)
  \/ \E name \in RequestRules : request.op = "copyRules" /\ UserRule(requestDir[1], WithMd(name))
  \/ UserMarkerDir(requestDir[1])

\* the copy engine in an environment that refuses nothing, on a target the
\* user edits
Next ==
  \/ UserEdits
  \/ \E force \in BOOLEAN : CopySkills(force, NoFault)
  \/ \E force \in BOOLEAN : CopyRules(force, NoFault)

Spec == Init /\ [][Next]_vars

\* the copy engine in an environment that may refuse the mkdir or one cp, for
\* one assistant
InitIO ==
  /\ Init
  /\ request.ai = "cline"

NextIO ==
  \/ \E force \in BOOLEAN, io \in SkillIOs : CopySkills(force, io)
  \/ \E force \in BOOLEAN, io \in RuleIOs : CopyRules(force, io)

SpecIO == InitIO /\ [][NextIO]_vars

(***************************************************************************)
(* The Assistant Detector on a target the user edits.  detect.ts reads     *)
(* neither the catalog nor a copy request.                                 *)
(***************************************************************************)
NoRequest == [op |-> "none"]

InitDetect ==
  /\ catalog = CHOOSE c \in Catalogs : c.root = DevRoot /\ c.strategy = "dynamic"
                                       /\ ".cache" \in c.skillDirs
  /\ target = FreshTarget
  /\ request = NoRequest
  /\ last = NoCall
  /\ nenv = 0
  /\ world = RefusedFor({}, "marker")

DetectAIType ==
  /\ last' = [op |-> "detectAIType", before |-> target, result |-> detectAIType(target)]
  /\ UNCHANGED <<catalog, target, request, nenv, world>>

HasAIType(aiType) ==
  /\ last' = [op |-> "hasAIType", ai |-> aiType, before |-> target,
              result |-> hasAIType(aiType, target)]
  /\ UNCHANGED <<catalog, target, request, nenv, world>>

EnsureAIDirectory(aiType, envFault) ==
  /\ LET r == ensureAIDirectory(aiType, target, envFault) IN
       /\ target' = r.target
       /\ last' = [op |-> "ensureAIDirectory", ai |-> aiType, fault |-> envFault,
                   before |-> target, after |-> r.target,
                   path |-> r.path, thrown |-> r.thrown]
  /\ UNCHANGED <<catalog, request, nenv, world>>

NextDetect ==
  \/ \E m \in MarkerDirs : UserMarkerDir(m)
  \/ \E m \in MarkerDirs : UserSkill(m, "schema")
  \/ DetectAIType
  \/ \E a \in AISet : HasAIType(a)
  \/ \E a \in AISet, envFault \in BOOLEAN : EnsureAIDirectory(a, envFault)

SpecDetect == InitDetect /\ [][NextDetect]_vars

(***************************************************************************)
(* The Install Orchestrator: one command line in one environment, run and  *)
(* run again with any answers to its prompts, on a target the user edits.  *)
(***************************************************************************)
\* the command lines
InstallRequests ==
  {[op |-> "install", variant |-> v, ai |-> a, type |-> t, skills |-> Undefined,
    rules |-> Undefined, force |-> f] :
     v \in {"single", "multi"},
     a \in {"none", "cursor", "all", "gemini"},
     t \in {"none", "skill", "rule", "both", "skills"},
     f \in BOOLEAN}
    \cup
  {[op |-> "install", variant |-> v, ai |-> "all", type |-> "both",
    skills |-> [given |-> TRUE, list |-> <<"schema", "non-existent-skill">>],
    rules |-> [given |-> TRUE, list |-> <<"schema-rules">>], force |-> FALSE] :
     v \in {"single", "multi"}}

\* the scripts of answers: the defaults accepted, everything deselected and
\* confirmed, and every prompt cancelled
AcceptDefaults ==
  [confirm |-> TRUE, selected |-> "all", selectedType |-> "both",
   aiTypes |-> <<"claude", "cline">>, resourceTypes |-> {"skills", "rules"},
   skills |-> AVAILABLE_SKILLS, confirmNoSkills |-> FALSE,
   rules |-> AVAILABLE_RULES, confirmNoRules |-> FALSE,
   force |-> FALSE, confirmInstall |-> TRUE]

DeselectAll ==
  [confirm |-> FALSE, selected |-> "windsurf", selectedType |-> "rule",
   aiTypes |-> <<"windsurf">>, resourceTypes |-> {"skills"},
   skills |-> <<>>, confirmNoSkills |-> TRUE,
   rules |-> <<>>, confirmNoRules |-> TRUE,
   force |-> TRUE, confirmInstall |-> TRUE]

CancelAll ==
  [confirm |-> FALSE, selected |-> "none", selectedType |-> "none",
   aiTypes |-> <<>>, resourceTypes |-> {},
   skills |-> <<>>, confirmNoSkills |-> FALSE,
   rules |-> <<>>, confirmNoRules |-> FALSE,
   force |-> FALSE, confirmInstall |-> FALSE]

AnswerScripts == {AcceptDefaults, DeselectAll, CancelAll}

InitInstall ==
  /\ catalog \in {c \in Catalogs : c.root = DevRoot /\ c.strategy = "static"
                                    /\ c.skillDirs = Range(AVAILABLE_SKILLS)}
  /\ target = FreshTarget
  /\ request \in InstallRequests
  /\ last = NoCall
  /\ nenv = 0
  /\ world \in InstallEnvs

InstallCommand(answers) ==
  /\ LET r == installCommand(request, answers, target, world) IN
       /\ target' = r.target
       /\ last' = [op |-> "install", answers |-> answers,
                   before |-> target, after |-> r.target, exit |-> r.exit,
                   report |-> r.report, uncaught |-> r.uncaught]
  /\ UNCHANGED <<catalog, request, nenv, world>>

NextInstall ==
  \/ UserMarkerDir(".cursor")
  \/ UserSkill(".windsurf", "schema")
  \/ \E answers \in AnswerScripts : InstallCommand(answers)

SpecInstall == InitInstall /\ [][NextInstall]_vars

(***************************************************************************)
(* commands/update.ts: updateCommand, on a target that holds the user's    *)
(* own copies; the CLI runs from a checkout or from node_modules.          *)
(***************************************************************************)
\* { ...options, force: true }
updateOptions_asGiven(options) == options

updateOptions(options) == [options EXCEPT !.force = TRUE]

updateCommand(options, answers, tgt, envs) ==
  installCommand(updateOptions(options), answers, tgt, envs)

\* update has the options --ai and --type only
UpdateRequests ==
  {[op |-> "update", variant |-> v, ai |-> a, type |-> t, skills |-> Undefined,
    rules |-> Undefined, force |-> FALSE] :
     v \in {"single", "multi"}, a \in {"none", "cursor", "all"},
     t \in {"none", "skill", "rule", "both"}}

InitUpdate ==
  /\ catalog \in {c \in Catalogs : c.skillDirs = Range(AVAILABLE_SKILLS)}
  /\ target = FreshTarget
  /\ request \in UpdateRequests
  /\ last = NoCall
  /\ nenv = 0
  /\ world = RefusedFor({}, "marker")

UpdateCommand(answers) ==
  /\ LET r == updateCommand(request, answers, target, world) IN
       /\ target' = r.target
       /\ last' = [op |-> "update", answers |-> answers, passed |-> updateOptions(request),
                   before |-> target, after |-> r.target, exit |-> r.exit,
                   report |-> r.report, uncaught |-> r.uncaught]
  /\ UNCHANGED <<catalog, request, nenv, world>>

NextUpdate ==
  \/ UserSkill(".cursor", "schema")
  \/ UserRule(".cursor", "schema-rules.md")
  \/ \E answers \in AnswerScripts : UpdateCommand(answers)

SpecUpdate == InitUpdate /\ [][NextUpdate]_vars

(***************************************************************************)
(* installResources called on its own, as the tests call it: one assistant *)
(* and one options value per behaviour, any resource type and environment  *)
(* per call, on a target the user edits.                                   *)
(***************************************************************************)
ResourceRequests ==
  {[op |-> "installResources", ai |-> a, skills |-> sk, rules |-> ru, force |-> f] :
     a \in {"claude"},
     sk \in {Undefined, [given |-> TRUE, list |-> <<"schema">>]},
     ru \in {Undefined, [given |-> TRUE, list |-> <<"skill-creator-rules">>]},
     f \in BOOLEAN}

ResourceTypes == {"skill", "rule", "both"}

\* nothing refused, or the mkdir of the skills or of the rules directory
ResourceIOs ==
  {[skills |-> [NoFault EXCEPT !.mkdir = s], rules |-> [NoFault EXCEPT !.mkdir = r]] :
     s \in BOOLEAN, r \in BOOLEAN}

InitResources ==
  /\ catalog \in {c \in Catalogs : c.root = DevRoot}
  /\ target = FreshTarget
  /\ request \in ResourceRequests
  /\ last = NoCall
  /\ nenv = 0
  /\ world = RefusedFor({}, "marker")

InstallResources(resourceType, io) ==
  /\ LET m == AI_DIRECTORIES[request.ai]
         r == installResources(request.ai, resourceType, target,
                               [skills |-> request.skills, rules |-> request.rules,
                                force |-> request.force], io)
     IN /\ target' = r.target
        /\ last' = [op |-> "installResources", type |-> resourceType, io |-> io,
                    before |-> target[m], after |-> r.target[m],
                    skills |-> r.skills, rules |-> r.rules,
                    thrown |-> r.thrown, calls |-> r.calls]
  /\ UNCHANGED <<catalog, request, nenv, world>>

NextResources ==
  \/ UserSkill(AI_DIRECTORIES[request.ai], "schema")
  \/ UserRule(AI_DIRECTORIES[request.ai], "schema-rules.md")
  \/ \E resourceType \in ResourceTypes, io \in ResourceIOs :
       InstallResources(resourceType, io)

SpecResources == InitResources /\ [][NextResources]_vars

(***************************************************************************)
(* The Resource Catalog of the scanning variant, on any content of the     *)
(* asset directories: each of the two may be missing or unreadable, and    *)
(* may hold directories and files, hidden ones included.  The catalog is   *)
(* listed, and copied from without a name list.                            *)
(***************************************************************************)
\* a directory of the catalog: [exists, readable, dirs, files]
CatalogDirs(dirSets, fileSets) ==
  {[exists |-> FALSE, readable |-> FALSE, dirs |-> {}, files |-> {}]}
    \cup {[exists |-> TRUE, readable |-> r, dirs |-> d, files |-> f] :
            r \in BOOLEAN, d \in dirSets, f \in fileSets}

ScanCatalogs ==
  { [root |-> r, strategy |-> "dynamic",
     skillsDirExists |-> sk.exists, skillsDirReadable |-> sk.readable,
     skillDirs |-> sk.dirs, skillsDirFiles |-> sk.files,
     rulesDirExists |-> ru.exists, rulesDirReadable |-> ru.readable,
     ruleFiles |-> ru.files, rulesDirDirs |-> ru.dirs] :
    r \in CatalogRoots,
    sk \in CatalogDirs({{}, {"schema", ".cache"}, Range(AVAILABLE_SKILLS)},
                       {{}, {"README.md"}}),
    ru \in CatalogDirs({{}, {"archive.md"}},
                       {{}, {"schema-rules.md", "notes.txt"},
                        {"skill-creator-rules.md", "schema-rules.md", ".draft.md"}}) }

InitScan ==
  /\ catalog \in ScanCatalogs
  /\ target = FreshTarget
  /\ request \in {[op |-> o, ai |-> a, names |-> Undefined] :
                    o \in {"copySkills", "copyRules"}, a \in {"claude", "cursor"}}
  /\ last = NoCall
  /\ nenv = 0
  /\ world = RefusedFor({}, "marker")

ScanAvailableSkills ==
  /\ last' = [op |-> "scanAvailableSkills", names |-> scanAvailableSkills]
  /\ UNCHANGED <<catalog, target, request, nenv, world>>

ScanAvailableRules ==
  /\ last' = [op |-> "scanAvailableRules", names |-> scanAvailableRules]
  /\ UNCHANGED <<catalog, target, request, nenv, world>>

NextScan ==
  \/ ScanAvailableSkills
  \/ ScanAvailableRules
  \/ \E force \in BOOLEAN : CopySkills(force, NoFault)
  \/ \E force \in BOOLEAN : CopyRules(force, NoFault)

SpecScan == InitScan /\ [][NextScan]_vars

(***************************************************************************)
(* A copy that is interrupted (the process is killed) and then run again   *)
(* with the same arguments.  The kill comes after the mkdir and `at` names *)
(* of the working list, either between two names or inside the cp of the   *)
(* next one, when cp has made the destination (the skill's directory, the  *)
(* rule's file) and not yet written its content.                           *)
(***************************************************************************)
copyOf(op, aiType, tgt, names, force) ==
  IF op = "copySkills" THEN copySkills(aiType, tgt, names, force, NoFault)
  ELSE copyRules(aiType, tgt, names, force, NoFault)

copyInterrupted(op, aiType, tgt, names, force, at, inside) ==
  LET list == IF op = "copySkills" THEN skillsToCopy(names) ELSE rulesToCopy(names)
      done == copyOf(op, aiType, tgt, [given |-> TRUE, list |-> SubSeq(list, 1, at)], force).target
      m == AI_DIRECTORIES[aiType]
  IN IF ~inside THEN done
     ELSE LET n == list[at + 1] IN
       IF op = "copySkills"
       THEN LET dest == done[m].skills.items[n] IN
              IF /\ itemOutcome(SkillSourceExists(n), dest.present, force, FALSE) = "copied"
                 /\ CopyFilter(SKILLS_DIR \o <<n>>)
              THEN [done EXCEPT ![m].skills.items[n] = CpDirRejected(dest, TRUE)]
              ELSE done
       ELSE LET dest == done[m].rules.items[WithMd(n)] IN
              IF itemOutcome(RuleSourceExists(n), dest # "none", force, FALSE) = "copied"
              THEN [done EXCEPT ![m].rules.items[WithMd(n)] = "partial"]
              ELSE done

InitRerun ==
  /\ Init
  /\ request.ai = "claude"

Interrupt(force, at, inside) ==
  /\ last = NoCall
  /\ at <= Len(IF request.op = "copySkills" THEN skillsToCopy(request.names)
               ELSE rulesToCopy(request.names))
  /\ inside => at < Len(IF request.op = "copySkills" THEN skillsToCopy(request.names)
                        ELSE rulesToCopy(request.names))
  /\ target' = copyInterrupted(request.op, request.ai, target, request.names, force, at, inside)
  /\ last' = [op |-> "interrupted", force |-> force, at |-> at, inside |-> inside,
              start |-> target]
  /\ UNCHANGED <<catalog, request, nenv, world>>

\* the same copy again, to completion; `uninterrupted` is what the copy makes
\* of the tree the interrupted run started from when nothing interrupts it
Rerun ==
  /\ last.op = "interrupted"
  /\ LET r == copyOf(request.op, request.ai, target, request.names, last.force)
         u == copyOf(request.op, request.ai, last.start, request.names, last.force)
     IN /\ target' = r.target
        /\ last' = [op |-> "rerun", force |-> last.force, at |-> last.at,
                    inside |-> last.inside,
                    interrupted |-> target[AI_DIRECTORIES[request.ai]],
                    after |-> r.target[AI_DIRECTORIES[request.ai]],
                    uninterrupted |-> u.target[AI_DIRECTORIES[request.ai]]]
  /\ UNCHANGED <<catalog, request, nenv, world>>

\* the user edits the target before the copy and after the re-run, not between
NextRerun ==
  \/ last.op # "interrupted" /\ UserEdits
  \/ \E force \in BOOLEAN, at \in 0..Len(AVAILABLE_SKILLS), inside \in BOOLEAN :
       Interrupt(force, at, inside)
  \/ Rerun

SpecRerun == InitRerun /\ [][NextRerun]_vars

(***************************************************************************)
(* The two catalog strategies side by side: the copy without a name list   *)
(* as the static-list variant and as the scanning variant run it, on the   *)
(* same catalog content and the same target.  The two variants differ in   *)
(* the line that resolves the working list and in nothing after it.        *)
(***************************************************************************)
listingOf(strategy, op) ==
  IF op = "copySkills"
    THEN (IF strategy = "static" THEN AVAILABLE_SKILLS ELSE scanAvailableSkills)
  ELSE (IF strategy = "static" THEN AVAILABLE_RULES ELSE scanAvailableRules)

copyWithStrategy(strategy, op, aiType, tgt, force) ==
  copyOf(op, aiType, tgt, [given |-> TRUE, list |-> listingOf(strategy, op)], force)

InitStrategies ==
  /\ catalog \in Catalogs
  /\ target = FreshTarget
  /\ request \in {[op |-> o, ai |-> a, names |-> Undefined] :
                    o \in {"copySkills", "copyRules"}, a \in {"claude", "cline"}}
  /\ last = NoCall
  /\ nenv = 0
  /\ world = RefusedFor({}, "marker")

\* the copy of the request under either strategy; the target becomes what the
\* strategy of the installed variant leaves
CopyEitherWay(force) ==
  /\ LET m == AI_DIRECTORIES[request.ai]
         s == copyWithStrategy("static", request.op, request.ai, target, force)
         d == copyWithStrategy("dynamic", request.op, request.ai, target, force)
     IN /\ target' = IF catalog.strategy = "static" THEN s.target ELSE d.target
        /\ last' = [op |-> "strategies", force |-> force, before |-> target[m],
                    static |-> [copied |-> s.copied, after |-> s.target[m]],
                    dynamic |-> [copied |-> d.copied, after |-> d.target[m]]]
  /\ UNCHANGED <<catalog, request, nenv, world>>

NextStrategies ==
  \/ UserEdits
  \/ \E force \in BOOLEAN : CopyEitherWay(force)

SpecStrategies == InitStrategies /\ [][NextStrategies]_vars

(***************************************************************************)
(* The paths of a copy.  Here a path is the sequence of its segments and   *)
(* a name is resolved as path.join resolves it, so that names with '.',    *)
(* '..' and separators in them, and the empty name, go where the code      *)
(* sends them.  The filesystem is the set of the files and the set of the  *)
(* directories that exist: those of the CLI's installation are fixed,      *)
(*   target : [files, dirs], what exists besides them                      *)
(*   request: [op, ai, name], one name of the list of a copy               *)
(***************************************************************************)
\* the segments of a name: name.split('/')
Segments(name) ==
  CASE name = "" -> <<>>
    [] name = "." -> <<".">>
    [] name = ".." -> <<"..">>
    [] name = "../rules" -> <<"..", "rules">>
    [] name = "../../README.md" -> <<"..", "..", "README.md">>
    [] name = "schema/SKILL.md" -> <<"schema", "SKILL.md">>
    [] name = "../skills/schema/SKILL" -> <<"..", "skills", "schema", "SKILL">>
    [] OTHER -> <<name>>

\* the segments of `${name}.md`
SegmentsMd(name) ==
  CASE name = "" -> <<".md">>
    [] name = ".." -> <<"...md">>
    [] name = "../skills/schema/SKILL" -> <<"..", "skills", "schema", "SKILL.md">>
    [] name = "../../README" -> <<"..", "..", "README.md">>
    [] OTHER -> <<WithMd(name)>>

\* path.join(base, name): '.' and empty segments drop out, '..' takes the
\* last segment away
RECURSIVE join(_, _)
join(base, segs) ==
  IF segs = <<>> THEN base
  ELSE IF Head(segs) = "." THEN join(base, Tail(segs))
  ELSE IF Head(segs) = ".."
    THEN join(IF base = <<>> THEN <<>> ELSE SubSeq(base, 1, Len(base) - 1), Tail(segs))
  ELSE join(Append(base, Head(segs)), Tail(segs))

IsPrefix(d, q) == Len(d) <= Len(q) /\ SubSeq(q, 1, Len(d)) = d

StrictlyInside(q, d) == IsPrefix(d, q) /\ Len(q) > Len(d)

Prefixes(q) == {SubSeq(q, 1, k) : k \in 0..Len(q)}

\* process.cwd()
ProjectDir == <<"home", "dev", "project">>

\* the installation the paths are resolved in
PathCatalog == Catalog(DevRoot, "dynamic", {"schema"}, {"schema-rules.md"})

CliFiles ==
  { DevRoot \o <<"README.md">>,
    DevRoot \o <<"assets", "skills", "schema", "SKILL.md">>,
    DevRoot \o <<"assets", "skills", "schema", ".DS_Store">>,
    DevRoot \o <<"assets", "rules", "schema-rules.md">> }

CliDirs == UNION {Prefixes(SubSeq(f, 1, Len(f) - 1)) : f \in CliFiles}

EmptyProject == [files |-> {}, dirs |-> Prefixes(ProjectDir)]

\* existsSync(path)
PathExists(fs, q) == q \in CliFiles \cup CliDirs \cup fs.files \cup fs.dirs

IsDirectory(fs, q) == q \in CliDirs \cup fs.dirs

\* what lies at or below a path
Below(fs, q) == {x \in CliFiles \cup CliDirs \cup fs.files \cup fs.dirs : IsPrefix(q, x)}

\* cp rejects: a directory without recursive, a destination that is the
\* source or lies inside it, a directory onto a file or a file onto a directory
CpRejects(fs, src, dest, recursive) ==
  \/ IsDirectory(fs, src) /\ ~recursive
  \/ IsPrefix(src, dest)
  \/ PathExists(fs, dest) /\ IsDirectory(fs, src) # IsDirectory(fs, dest)

\* the paths cp creates or overwrites: the copies of what lies below src and
\* passes the filter, new ones always, existing files under force; and the
\* directories that had to be made above them
CpWrites(fs, src, dest, force, filtered) ==
  LET copies == {[from |-> x, to |-> dest \o SubSeq(x, Len(src) + 1, Len(x))] :
                   x \in {y \in Below(fs, src) : ~filtered \/ CopyFilter(y)}}
      made == {c \in copies : IF IsDirectory(fs, c.from) THEN ~PathExists(fs, c.to)
                              ELSE ~PathExists(fs, c.to) \/ force}
  IN [files |-> {c.to : c \in {m \in made : ~IsDirectory(fs, m.from)}},
      dirs |-> {c.to : c \in {m \in made : IsDirectory(fs, m.from)}}
                 \cup ({d \in UNION {Prefixes(c.to) : c \in made} : ~PathExists(fs, d)}
                         \ {c.to : c \in made})]

\* mkdir(targetPath, {recursive: true}) and one pass of the loop of copySkills
\* or copyRules, for the name of the request
copyNamed(op, aiType, fs, name, force) ==
  LET mapping == IF op = "copySkills" THEN SKILLS_MAPPING[aiType] ELSE RULES_MAPPING[aiType]
      targetPath == ProjectDir \o mapping
      catalogDir == IF op = "copySkills" THEN DevRoot \o <<"assets", "skills">>
                    ELSE DevRoot \o <<"assets", "rules">>
      segs == IF op = "copySkills" THEN Segments(name) ELSE SegmentsMd(name)
      made == [fs EXCEPT !.dirs = @ \cup Prefixes(targetPath)]
      sourcePath == join(catalogDir, segs)
      destPath == join(targetPath, segs)
      outcome == itemOutcome(PathExists(made, sourcePath), PathExists(made, destPath), force,
                             CpRejects(made, sourcePath, destPath, op = "copySkills"))
      writes == IF outcome = "copied"
                  THEN CpWrites(made, sourcePath, destPath, force, op = "copySkills")
                ELSE [files |-> {}, dirs |-> {}]
  IN [fs |-> [files |-> made.files \cup writes.files, dirs |-> made.dirs \cup writes.dirs],
      targetPath |-> targetPath, catalogDir |-> catalogDir,
      sourcePath |-> sourcePath, destPath |-> destPath, outcome |-> outcome,
      copied |-> IF outcome = "copied" THEN <<name>> ELSE <<>>,
      writes |-> writes.files \cup writes.dirs]

SkillPathNames ==
  {"", ".", "..", "../rules", "../../README.md", "schema", "schema/SKILL.md",
   "non-existent-skill"}

RulePathNames == {"", "..", "../skills/schema/SKILL", "../../README", "schema-rules",
                  "non-existent-rule"}

InitPaths ==
  /\ catalog = PathCatalog
  /\ target = EmptyProject
  /\ request \in {[op |-> "copySkills", ai |-> a, name |-> n] :
                    a \in AISet, n \in SkillPathNames}
                   \cup {[op |-> "copyRules", ai |-> a, name |-> n] :
                           a \in AISet, n \in RulePathNames}
  /\ last = NoCall
  /\ nenv = 0
  /\ world = RefusedFor({}, "marker")

\* the project has a file of its own
UserFile(q) ==
  /\ nenv < MaxEnv
  /\ ~PathExists(target, q)
  /\ \A d \in Prefixes(q) \ {q} : IsDirectory(target, d)
  /\ target' = [target EXCEPT !.files = @ \cup {q}]
  /\ nenv' = nenv + 1
  /\ UNCHANGED <<catalog, request, last, world>>

CopyNamed(force) ==
  /\ LET r == copyNamed(request.op, request.ai, target, request.name, force) IN
       /\ target' = r.fs
       /\ last' = [op |-> "copyNamed", force |-> force, before |-> target, after |-> r.fs,
                   targetPath |-> r.targetPath, catalogDir |-> r.catalogDir,
                   sourcePath |-> r.sourcePath, destPath |-> r.destPath,
                   outcome |-> r.outcome, copied |-> r.copied, writes |-> r.writes]
  /\ UNCHANGED <<catalog, request, nenv, world>>

NextPaths ==
  \/ UserFile(ProjectDir \o <<"README.md">>)
  \/ UserFile(ProjectDir \o <<"package.json">>)
  \/ \E force \in BOOLEAN : CopyNamed(force)

SpecPaths == InitPaths /\ [][NextPaths]_vars

(***************************************************************************)
(* The Root Locator: findCliRoot (directory-scan variant) and findRepoRoot *)
(* (static-list variant), run once at module load.  The directories the    *)
(* search can visit are the ancestors of __dirname: directory d is the     *)
(* ancestor at depth d below the filesystem root, directory 0 is the root. *)
(*   world   : [entries], the names each of these directories contains     *)
(*   request : [locator, dirname], which function runs and its __dirname   *)
(*   last    : the position of the run, [op, pc, currentDir, depth,        *)
(*             examined, result]; examined lists the directories whose     *)
(*             markers were tested                                         *)
(***************************************************************************)
Locators == {"findCliRoot", "findRepoRoot"}

maxDepth(locator) == IF locator = "findCliRoot" THEN 5 ELSE 10

\* the while condition
withinDepth_inclusive(locator, depth) == depth <= maxDepth(locator)

withinDepth(locator, depth) == depth < maxDepth(locator)

\* path.dirname of an absolute directory: the root is its own parent
dirname(dir) == IF dir = 0 THEN 0 ELSE dir - 1

\* path.resolve(dir, '..', '..')
resolve_oneLevel(dir) == dirname(dir)

resolve(dir) == dirname(dirname(dir))

\* existsSync(join(currentDir, marker)), for the markers of the locator
markersExist_any(locator, entries, dir) ==
  IF locator = "findCliRoot" THEN "assets" \in entries[dir]
  ELSE "skills" \in entries[dir] \/ ".claude" \in entries[dir]

markersExist(locator, entries, dir) ==
  IF locator = "findCliRoot" THEN "assets" \in entries[dir]
  ELSE "skills" \in entries[dir] /\ ".claude" \in entries[dir]

Dirs == 0..MaxStartDepth

EntrySets == {{"assets"}, {"skills"}, {"skills", ".claude"}}

\* at most two of the directories contain any of the names searched for
LocatorTrees ==
  { [d \in Dirs |-> IF d = d1 THEN e1 ELSE IF d = d2 THEN e2 ELSE {}] :
      d1 \in Dirs \cup {-1}, d2 \in Dirs \cup {-1}, e1 \in EntrySets, e2 \in EntrySets }

InitLocator ==
  /\ catalog = NoTree
  /\ target = FreshTarget
  /\ nenv = 0
  /\ \E entries \in LocatorTrees : world = [entries |-> entries]
  /\ \E locator \in Locators, start \in Dirs :
       /\ request = [locator |-> locator, dirname |-> start]
       /\ last = [op |-> "locate", pc |-> "while", currentDir |-> start, depth |-> 0,
                  examined |-> <<>>, result |-> -1]

InLoop ==
  /\ last.op = "locate"
  /\ last.pc = "while"
  /\ withinDepth(request.locator, last.depth)

\* the markers are there: return currentDir
LocatorFound ==
  /\ InLoop
  /\ markersExist(request.locator, world.entries, last.currentDir)
  /\ last' = [last EXCEPT !.pc = "returned",
                          !.examined = Append(@, last.currentDir),
                          !.result = last.currentDir]
  /\ UNCHANGED <<catalog, target, request, nenv, world>>

\* parentDir === currentDir: break
LocatorAtRoot ==
  /\ InLoop
  /\ ~markersExist(request.locator, world.entries, last.currentDir)
  /\ dirname(last.currentDir) = last.currentDir
  /\ last' = [last EXCEPT !.pc = "break",
                          !.examined = Append(@, last.currentDir)]
  /\ UNCHANGED <<catalog, target, request, nenv, world>>

\* currentDir = parentDir; depth++
LocatorAscend ==
  /\ InLoop
  /\ ~markersExist(request.locator, world.entries, last.currentDir)
  /\ dirname(last.currentDir) # last.currentDir
  /\ last' = [last EXCEPT !.currentDir = dirname(last.currentDir),
                          !.depth = @ + 1,
                          !.examined = Append(@, last.currentDir)]
  /\ UNCHANGED <<catalog, target, request, nenv, world>>

\* after the loop: return resolve(__dirname, '..', '..')
LocatorFallback ==
  /\ last.op = "locate"
  /\ \/ last.pc = "break"
     \/ last.pc = "while" /\ ~withinDepth(request.locator, last.depth)
  /\ last' = [last EXCEPT !.pc = "returned", !.result = resolve(request.dirname)]
  /\ UNCHANGED <<catalog, target, request, nenv, world>>

NextLocator ==
  \/ LocatorFound
  \/ LocatorAtRoot
  \/ LocatorAscend
  \/ LocatorFallback

SpecLocator == InitLocator /\ [][NextLocator]_vars

\* the module load is not interrupted
SpecLocatorFair == SpecLocator /\ WF_vars(NextLocator)

(***************************************************************************)
(* Properties of the Copy Engine.  `last` is the record of the latest      *)
(* call: its inputs, the marker directory before and after it, and what it *)
(* returned and logged.                                                    *)
(***************************************************************************)
IsCopy(call) == call.op \in {"copySkills", "copyRules"}

\* the working list of the request
WorkingList ==
  IF request.op = "copySkills" THEN skillsToCopy(request.names)
  ELSE rulesToCopy(request.names)

SourceExists(n) ==
  IF request.op = "copySkills" THEN SkillSourceExists(n) ELSE RuleSourceExists(n)

\* what a marker directory holds at the destination path of a name
Dest(node, n) ==
  IF request.op = "copySkills" THEN node.skills.items[n] ELSE node.rules.items[WithMd(n)]

DestPresent(node, n) ==
  IF request.op = "copySkills" THEN node.skills.items[n].present
  ELSE node.rules.items[WithMd(n)] # "none"

\* the destination of a name holds the catalog's copy of it
Materialised(node, n) ==
  IF request.op = "copySkills"
    THEN node.skills.items[n].present /\ node.skills.items[n].files["SKILL.md"] = "cat"
  ELSE node.rules.items[WithMd(n)] = "cat"

\* the loop reached every name of the working list, in order
AllProcessed(call) ==
  /\ Len(call.log) = Len(WorkingList)
  /\ \A i \in 1..Len(WorkingList) : call.log[i][1] = WorkingList[i]

\* C1: copySkills(A, target, undefined, false) on a fresh target returns the
\* full catalog skill list, and the destination of every returned name exists
\* when the call returns.  Stated for a catalog that holds a source for every
\* name of its list.
C1_FreshCopyReturnsCatalog ==
  ( /\ last.op = "copySkills"
    /\ ~request.names.given
    /\ ~last.force
    /\ last.before = EmptyMarker
    /\ \A n \in Range(skillsToCopy(Undefined)) : SkillSourceExists(n) )
  => /\ last.copied = skillsToCopy(Undefined)
     /\ \A n \in Range(last.copied) : last.after.skills.items[n].present

\* C2: the same copy called twice in a row with force = false: the second
\* call returns the empty list and leaves the destination as the first call
\* left it.
C2_SecondCallCopiesNothing ==
  [][ ( /\ IsCopy(last) /\ ~last.force
        /\ IsCopy(last') /\ ~last'.force
        /\ nenv' = nenv
        /\ last'.before = last.after )
      => /\ last'.copied = <<>>
         /\ last'.after = last'.before ]_vars

\* C3: with force = false, a name whose destination existed when the call
\* began is skipped: nothing at its destination changes, the name is not in
\* the result, and the loop still reaches every name of the list.
C3_CollisionPolicy ==
  (IsCopy(last) /\ ~last.force /\ ~last.thrown) =>
    \A i \in 1..Len(WorkingList) :
      LET n == WorkingList[i] IN
        DestPresent(last.before, n) =>
          /\ n \notin Range(last.copied)
          /\ Dest(last.after, n) = Dest(last.before, n)
          /\ AllProcessed(last)
          /\ SourceExists(n) => last.log[i] = <<n, "already exists">>

\* a force = false call skipped a name whose destination held the user's own
\* files and copied a later name of the list
C3_Witness ==
  /\ IsCopy(last) /\ ~last.force
  /\ \E i, j \in 1..Len(last.log) :
       /\ i < j
       /\ last.log[i][2] = "already exists"
       /\ Dest(last.before, last.log[i][1]) = Dest(last.after, last.log[i][1])
       /\ DestPresent(last.before, last.log[i][1])
       /\ ~Materialised(last.after, last.log[i][1])
       /\ last.log[j][2] = "copied"

\* C4: after a prior install that skipped no existing destination, the same
\* copy with force = true returns the list the prior install returned, and
\* every name of it is materialised at its destination.
C4_ForceRecopies ==
  [][ ( /\ IsCopy(last)
        /\ \A i \in 1..Len(last.log) : last.log[i][2] # "already exists"
        /\ IsCopy(last') /\ last'.force
        /\ nenv' = nenv
        /\ last'.before = last.after )
      => /\ last'.copied = last.copied
         /\ \A n \in Range(last'.copied) : Materialised(last'.after, n) ]_vars

\* C5: a name without a source in the catalog is skipped with a warning, is
\* not in the result and leaves its destination alone; the loop still reaches
\* every name of the list; a list of missing names only returns []; the call
\* throws only when the mkdir of the destination directory is refused.
C5_MissingNamePolicy ==
  IsCopy(last) =>
    /\ last.thrown => last.io.mkdir
    /\ ~last.thrown =>
         /\ AllProcessed(last)
         /\ \A i \in 1..Len(WorkingList) :
              LET n == WorkingList[i] IN
                ~SourceExists(n) =>
                  /\ last.log[i] = <<n, "not found">>
                  /\ n \notin Range(last.copied)
                  /\ Dest(last.after, n) = Dest(last.before, n)
         /\ (\A i \in 1..Len(WorkingList) : ~SourceExists(WorkingList[i]))
              => last.copied = <<>>

\* a call skipped a missing name and copied a later name of the list
C5_Witness ==
  /\ IsCopy(last)
  /\ ~last.thrown
  /\ \E i, j \in 1..Len(last.log) :
       /\ i < j
       /\ last.log[i][2] = "not found"
       /\ last.log[j][2] = "copied"
       /\ last.log[j][1] \in Range(last.copied)

\* C7: a name whose cp rejects is logged as failed and is not in the result;
\* the loop still reaches every later name of the list; the call does not
\* throw because of it.
C7_PerItemIsolation ==
  IsCopy(last) =>
    /\ last.thrown => (last.io.mkdir /\ last.log = <<>> /\ last.after = last.before)
    /\ ~last.thrown =>
         /\ AllProcessed(last)
         /\ \A i \in 1..Len(last.log) :
              LET n == last.log[i][1] IN
                /\ last.log[i][2] = "failed" => (n \in last.io.cp /\ n \notin Range(last.copied))
                /\ (n \in last.io.cp /\ SourceExists(n) /\ last.force)
                     => last.log[i][2] = "failed"

\* the cp of one name rejected and a later name of the list was copied
C7_Witness ==
  /\ IsCopy(last)
  /\ ~last.thrown
  /\ \E i, j \in 1..Len(last.log) :
       /\ i < j
       /\ last.log[i][2] = "failed"
       /\ last.log[i][1] \notin Range(last.copied)
       /\ last.log[j][2] = "copied"


\* the catalog source content of a name, less the excluded entries
SourceContent(n) ==
  IF request.op = "copySkills"
    THEN [present |-> TRUE,
          files |-> [e \in Entries |->
                      IF e \in SourceEntries /\ ~IncludesDSStore(e) /\ ~EndsWithLocalJson(e)
                        /\ ~IncludesNodeModules(e)
                      THEN "cat" ELSE "none"]]
  ELSE "cat"

\* C19: after a copy with force = true the destination of every returned name
\* holds exactly the catalog source content of that name, less the excluded
\* entries, whatever it held before the call.
C19_ForceResync ==
  (IsCopy(last) /\ last.force /\ ~last.thrown) =>
    \A n \in Range(last.copied) : Dest(last.after, n) = SourceContent(n)

\* C20: a copy that was interrupted, between or inside item copies, and is
\* then run again to completion with the same arguments leaves the destination
\* tree an uninterrupted run leaves.
C20_SafeRerun ==
  last.op = "rerun" => last.after = last.uninterrupted

\* an entry name the filter of the skill copy is meant to keep out
Excluded(e) == IncludesNodeModules(e) \/ IncludesDSStore(e) \/ EndsWithLocalJson(e)

\* C21: after a skill copy, with either force value, no entry of the catalog
\* whose path has 'node_modules' or '.DS_Store' in it or ends in '.local.json'
\* was created under a destination skill directory.
C21_ExclusionFilter ==
  last.op = "copySkills" =>
    \A n \in SkillNames : \A e \in {x \in Entries : Excluded(x)} :
      last.after.skills.items[n].files[e] # "cat"

\* a forced copy over the user's own directory of the name: the skill file
\* came from the catalog, the excluded entries of the source did not
C21_Witness ==
  /\ last.op = "copySkills"
  /\ last.force
  /\ \E n \in Range(last.copied) :
       /\ last.before.skills.items[n].present
       /\ last.after.skills.items[n].files["SKILL.md"] = "cat"
       /\ \A e \in SourceEntries : Excluded(e) => last.after.skills.items[n].files[e] = "none"

\* the names the loop of the latest copy reached
Reached == [i \in 1..Len(last.log) |-> last.log[i][1]]

\* the listing of the kind: the compiled-in list, or what the catalog
\* directory holds that a scan lists
FullListing ==
  IF catalog.strategy = "static"
    THEN (IF request.op = "copySkills" THEN AVAILABLE_SKILLS ELSE AVAILABLE_RULES)
  ELSE IF request.op = "copySkills"
    THEN Sort({n \in catalog.skillDirs : ~StartsWithDot(n)})
  ELSE Sort({StripMd(f) : f \in {g \in catalog.ruleFiles : EndsWithMd(g)}})

\* C26: without a name list the copy goes through the full listing of the
\* kind; with the empty list it goes through nothing, returns the empty list
\* and leaves every item of the destination directory as it was, and has
\* made the destination directory all the same.
C26_WorkingListResolution ==
  (IsCopy(last) /\ ~last.thrown) =>
    /\ ~request.names.given => Reached = FullListing
    /\ (request.names.given /\ request.names.list = <<>>) =>
         /\ Reached = <<>>
         /\ last.copied = <<>>
         /\ last.after[requestDir[2]].items = last.before[requestDir[2]].items
         /\ last.after.kind = "dir"
         /\ last.after[requestDir[2]].exists

\* the empty list on a target that had no such directory
C26_Witness ==
  /\ IsCopy(last)
  /\ request.names.given
  /\ request.names.list = <<>>
  /\ last.before.kind = "absent"
  /\ last.after[requestDir[2]].exists
  /\ last.copied = <<>>

\* C28: whenever a copy returns, the destination of every returned name
\* exists and holds every entry of its catalog source that is not excluded,
\* wherever the catalog root lies.
C28_ReportedOnlyIfMaterialised ==
  IsCopy(last) =>
    \A n \in Range(last.copied) :
      /\ SourceExists(n)
      /\ DestPresent(last.after, n)
      /\ request.op = "copySkills" =>
           \A e \in {x \in SourceEntries : ~Excluded(x)} :
             last.after.skills.items[n].files[e] # "none"

(***************************************************************************)
(* Properties of the Install Orchestrator, checked under SpecInstall.      *)
(***************************************************************************)
\* the assistants the command line and the answers select
SelectedAssistants ==
  LET expand(a) == IF a = "all" THEN <<"claude", "cursor", "windsurf", "cline">> ELSE <<a>>
      suggested == detectAIType(last.before).suggested
  IN IF request.ai # "none" THEN expand(request.ai)
     ELSE IF request.variant = "multi" THEN last.answers.aiTypes
     ELSE IF suggested # "null" /\ last.answers.confirm THEN expand(suggested)
     ELSE expand(last.answers.selected)

\* what rejects for the assistant of a report entry, given the target before
\* the command and what the filesystem refuses
EnsureRejects(entry) ==
  \/ entry.ai \notin AISet
  \/ last.before[AI_DIRECTORIES[entry.ai]].kind = "absent" /\ world[entry.ai].ensure

CopyRejects(entry) ==
  /\ entry.ai \in AISet
  /\ \/ /\ "copySkills" \in Range(entry.calls)
        /\ world[entry.ai].skills.mkdir
        /\ ~last.before[AI_DIRECTORIES[entry.ai]].skills.exists
     \/ /\ "copyRules" \in Range(entry.calls)
        /\ world[entry.ai].rules.mkdir
        /\ ~last.before[AI_DIRECTORIES[entry.ai]].rules.exists

\* C6: the install loop attempts every selected assistant once, in order; an
\* assistant is reported as failed exactly when its ensureAIDirectory or its
\* installResources threw; the others are installed; nothing escapes the loop.
C6_FailureIsolation ==
  (last.op = "install" /\ last.exit = "complete") =>
    /\ ~last.uncaught
    /\ Len(last.report) = Len(SelectedAssistants)
    /\ \A i \in 1..Len(last.report) :
         LET entry == last.report[i] IN
           /\ entry.ai = SelectedAssistants[i]
           /\ entry.calls[1] = "ensureAIDirectory"
           /\ entry.outcome = "failed" <=> (EnsureRejects(entry) \/ CopyRejects(entry))
           /\ entry.outcome # "failed" =>
                /\ entry.outcome = "installed"
                /\ last.after[AI_DIRECTORIES[entry.ai]].kind = "dir"
           /\ EnsureRejects(entry) =>
                (entry.ai \in AISet =>
                   last.after[AI_DIRECTORIES[entry.ai]] = last.before[AI_DIRECTORIES[entry.ai]])

\* an install for the four assistants in which one failed inside
\* installResources and a later one was installed with skills
C6_Witness ==
  /\ last.op = "install"
  /\ Len(last.report) = 4
  /\ \E i, j \in 1..4 :
       /\ i < j
       /\ last.report[i].outcome = "failed"
       /\ Len(last.report[i].calls) > 1
       /\ last.report[j].outcome = "installed"
       /\ last.report[j].skills # <<>>

\* s is t with some of its elements left out
RECURSIVE IsSubSeq(_, _)
IsSubSeq(s, t) ==
  IF s = <<>> THEN TRUE
  ELSE IF t = <<>> THEN FALSE
  ELSE IF Head(s) = Head(t) THEN IsSubSeq(Tail(s), Tail(t))
  ELSE IsSubSeq(s, Tail(t))

\* C12: the returned list is a sub-sequence of the working list, and a name is
\* in it only if its copy was performed in this call: it has a source, its
\* destination was absent or force was set, its cp did not reject, and its
\* destination holds the catalog's copy when the call returns.
C12_ResultIsSubSequence ==
  (IsCopy(last) /\ ~last.thrown) =>
    /\ IsSubSeq(last.copied, WorkingList)
    /\ \A n \in Range(last.copied) :
         /\ SourceExists(n)
         /\ last.force \/ ~DestPresent(last.before, n)
         /\ n \notin last.io.cp
         /\ Materialised(last.after, n)

\* the assistants ensureAIDirectory was invoked with, in order: one report
\* entry per pass of the loop
Processed == [i \in 1..Len(last.report) |-> last.report[i].ai]

\* C18: ensureAIDirectory and installResources are only ever invoked with one
\* of claude, cursor, windsurf, cline, and with --ai all the four are processed
\* once each, in that order.
C18_AllExpanded ==
  last.op = "install" =>
    /\ \A a \in Range(Processed) : a \in AISet
    /\ (request.ai = "all" /\ last.exit = "complete") =>
         /\ Processed = <<"claude", "cursor", "windsurf", "cline">>
         /\ \A i \in 1..4 : last.report[i].calls[1] = "ensureAIDirectory"

\* the interactive install asked for the skills (rules) and the user, having
\* deselected them all, confirmed to continue without them
ConfirmedNoSkills ==
  /\ request.variant = "multi"
  /\ ~request.skills.given
  /\ IF request.type # "none" THEN request.type \in {"skill", "both"}
     ELSE "skills" \in last.answers.resourceTypes
  /\ last.answers.skills = <<>>
  /\ last.answers.confirmNoSkills

ConfirmedNoRules ==
  /\ request.variant = "multi"
  /\ ~request.rules.given
  /\ IF request.type # "none" THEN request.type \in {"rule", "both"}
     ELSE "rules" \in last.answers.resourceTypes
  /\ last.answers.rules = <<>>
  /\ last.answers.confirmNoRules

\* C22: when the user confirmed to continue without skills, no skill is copied
\* for any assistant in that run, and likewise for the rules.
C22_DeselectionHonoured ==
  (last.op = "install" /\ last.exit = "complete") =>
    \A i \in 1..Len(last.report) :
      /\ ConfirmedNoSkills =>
           /\ "copySkills" \notin Range(last.report[i].calls)
           /\ last.report[i].skills = <<>>
      /\ ConfirmedNoRules =>
           /\ "copyRules" \notin Range(last.report[i].calls)
           /\ last.report[i].rules = <<>>

(***************************************************************************)
(* Properties of updateCommand, checked under SpecUpdate.                  *)
(***************************************************************************)
\* C23: update invokes installCommand with force = true and the other options
\* as given, and for every assistant it installs, a skill or rule of the
\* catalog that was at the destination already is overwritten with the
\* catalog's copy and reported, not skipped.
C23_UpdateIsForcedInstall ==
  last.op = "update" =>
    /\ last.passed.force
    /\ \A f \in DOMAIN request \ {"force"} : last.passed[f] = request[f]
    /\ last.exit = "complete" =>
         \A i \in 1..Len(last.report) :
           LET entry == last.report[i]
               m == AI_DIRECTORIES[entry.ai]
           IN entry.outcome = "installed" =>
                /\ "copySkills" \in Range(entry.calls) =>
                     \A n \in Range(skillsToCopy(Undefined)) \cap catalog.skillDirs :
                       last.before[m].skills.items[n].present =>
                         /\ n \in Range(entry.skills)
                         /\ last.after[m].skills.items[n].files["SKILL.md"] = "cat"
                /\ "copyRules" \in Range(entry.calls) =>
                     \A n \in {x \in Range(rulesToCopy(Undefined)) : WithMd(x) \in catalog.ruleFiles} :
                       last.before[m].rules.items[WithMd(n)] # "none" =>
                         /\ n \in Range(entry.rules)
                         /\ last.after[m].rules.items[WithMd(n)] = "cat"

\* C30: given a --type outside skill, rule, both, installCommand installs
\* nothing: it reaches no assistant and leaves the target as it was.
C30_InvalidTypeRejected ==
  (last.op = "install" /\ request.type \notin {"none", "skill", "rule", "both"}) =>
    /\ last.report = <<>>
    /\ last.after = last.before

(***************************************************************************)
(* Properties of installResources, checked under SpecResources.            *)
(***************************************************************************)
\* C11: with 'skill' installResources runs the skill copy alone, returns
\* rules = [] and leaves the rules directory as it was; with 'rule' it runs
\* the rule copy alone, returns skills = [] and leaves the skills directory
\* as it was; with 'both' it runs the skill copy and then the rule copy, once
\* each, unless the skill copy throws, which ends the call.
C11_ResourceKindSelection ==
  last.op = "installResources" =>
    /\ last.type = "skill" =>
         /\ last.calls = <<"copySkills">>
         /\ last.rules = <<>>
         /\ last.after.rules = last.before.rules
    /\ last.type = "rule" =>
         /\ last.calls = <<"copyRules">>
         /\ last.skills = <<>>
         /\ last.after.skills = last.before.skills
    /\ last.type = "both" =>
         /\ last.calls = IF last.io.skills.mkdir /\ ~last.before.skills.exists
                           THEN <<"copySkills">> ELSE <<"copySkills", "copyRules">>
         /\ Len(last.calls) = 2 => (last.after.skills.exists /\ (last.thrown \/ last.after.rules.exists))
    /\ last.thrown <=>
         \/ "copySkills" \in Range(last.calls) /\ last.io.skills.mkdir /\ ~last.before.skills.exists
         \/ "copyRules" \in Range(last.calls) /\ last.io.rules.mkdir /\ ~last.before.rules.exists

\* installResources ran with 'skill' on a target whose rules directory held a
\* file of the user's, copied a skill and returned no rule
C11_Witness ==
  /\ last.op = "installResources"
  /\ last.type = "skill"
  /\ last.before.rules.items["schema-rules.md"] = "user"
  /\ last.skills # <<>>
  /\ ~last.before.skills.exists

(***************************************************************************)
(* Properties of the catalog listing, checked under SpecScan.              *)
(***************************************************************************)
IsScan(call) == call.op \in {"scanAvailableSkills", "scanAvailableRules"}

\* position of a name in the code unit order
Position(n) == CHOOSE i \in 1..Len(SortOrder) : SortOrder[i] = n

IsSorted(q) == \A i \in 1..Len(q), j \in 1..Len(q) : i < j => Position(q[i]) < Position(q[j])

\* C16: both scans return their names sorted and without a name beginning
\* with '.'; the skills scan returns directories of the skills directory only,
\* the rules scan the stripped names of files ending in '.md' only.
C16_CatalogListing ==
  IsScan(last) =>
    /\ IsSorted(last.names)
    /\ \A n \in Range(last.names) : ~StartsWithDot(n)
    /\ last.op = "scanAvailableSkills" =>
         \A n \in Range(last.names) : n \in catalog.skillDirs
    /\ last.op = "scanAvailableRules" =>
         \A n \in Range(last.names) : WithMd(n) \in catalog.ruleFiles

ListingFails(op) ==
  IF op \in {"scanAvailableSkills", "copySkills"}
  THEN ~catalog.skillsDirExists \/ ~catalog.skillsDirReadable
  ELSE ~catalog.rulesDirExists \/ ~catalog.rulesDirReadable

\* C17: when the catalog directory is missing or cannot be read, the scan
\* returns the empty list, and a copy without a name list, in an environment
\* that refuses nothing in the target, returns the empty list and does not
\* throw.
C17_ScanDegradation ==
  /\ (IsScan(last) /\ ListingFails(last.op)) => last.names = <<>>
  /\ (IsCopy(last) /\ ~request.names.given /\ ListingFails(last.op)) =>
       last.copied = <<>> /\ ~last.thrown

C17_Witness ==
  /\ last.op = "copySkills"
  /\ ~request.names.given
  /\ catalog.skillsDirExists
  /\ ~catalog.skillsDirReadable
  /\ catalog.skillDirs # {}
  /\ last.copied = <<>>
  /\ last.after.skills.exists

(***************************************************************************)
(* Properties of the two catalog strategies, checked under SpecStrategies. *)
(***************************************************************************)
\* C24, as stated: the two strategies return the same list and leave the same
\* destination tree.
C24_StrategiesEquivalent ==
  last.op = "strategies" =>
    /\ last.static.copied = last.dynamic.copied
    /\ last.static.after = last.dynamic.after

\* every entry of the catalog that a listing can name is in the compiled-in list
CatalogIsCompiledIn ==
  IF request.op = "copySkills"
    THEN {n \in catalog.skillDirs : ~StartsWithDot(n)} \subseteq Range(AVAILABLE_SKILLS)
  ELSE {StripMd(f) : f \in {g \in catalog.ruleFiles : EndsWithMd(g)}}
         \subseteq Range(AVAILABLE_RULES)

\* C24, amended: when every listable entry of the catalog is named in the
\* compiled-in list, the two strategies return the same names, the static one
\* in the order of its list and the dynamic one sorted, and leave the same
\* destination tree.
C24_StrategiesAgree ==
  (last.op = "strategies" /\ CatalogIsCompiledIn) =>
    /\ Range(last.static.copied) = Range(last.dynamic.copied)
    /\ Len(last.static.copied) = Len(last.dynamic.copied)
    /\ IsSubSeq(last.static.copied, listingOf("static", request.op))
    /\ IsSorted(last.dynamic.copied)
    /\ last.static.after = last.dynamic.after

\* the catalog holds a hidden directory and fewer skills than the list
C24_Witness ==
  /\ last.op = "strategies"
  /\ request.op = "copySkills"
  /\ CatalogIsCompiledIn
  /\ ".cache" \in catalog.skillDirs
  /\ catalog.root = DevRoot
  /\ last.static.copied = <<"schema", "form-developer">>
  /\ last.dynamic.copied = <<"form-developer", "schema">>
  /\ last.static.after.skills.items["schema"].files["SKILL.md"] = "cat"

(***************************************************************************)
(* Properties of the paths of a copy, checked under SpecPaths.             *)
(***************************************************************************)
\* the paths a call created or overwrote
Changed ==
  last.writes \cup ((last.after.files \cup last.after.dirs)
                      \ (last.before.files \cup last.before.dirs))

\* C25: the install of skills (rules) for an assistant A creates or modifies
\* only the directories targetDir/.A and targetDir/.A/skills (rules) and
\* paths below the latter; every other path of the target, the marker
\* directories of the other assistants included, is left as it was.
C25_ProducedLayout ==
  last.op = "copyNamed" =>
    /\ \A q \in Changed : IsPrefix(ProjectDir \o <<AI_DIRECTORIES[request.ai]>>, q)
    /\ \A q \in Changed : IsPrefix(q, last.targetPath) \/ StrictlyInside(q, last.targetPath)
    /\ \A a \in AISet \ {request.ai} :
         \A q \in Changed : ~IsPrefix(ProjectDir \o <<AI_DIRECTORIES[a]>>, q)
    /\ request.op = "copyRules" =>
         \A q \in Changed : StrictlyInside(q, last.targetPath) => Len(q) = Len(last.targetPath) + 1

\* C27: whatever the name, the source path a copy reads lies strictly inside
\* the catalog directory of the kind and every path it writes lies strictly
\* inside the assistant's skills (rules) directory of the target.
C27_PathConfinement ==
  (last.op = "copyNamed" /\ last.outcome = "copied") =>
    /\ StrictlyInside(last.sourcePath, last.catalogDir)
    /\ StrictlyInside(last.destPath, last.targetPath)
    /\ \A w \in last.writes : StrictlyInside(w, last.targetPath)

\* C29: a name that is returned is the name of a skill directory directly
\* under the catalog skills directory (of a '<name>.md' file directly under
\* the rules directory); the empty name is never returned and never makes the
\* copy read the whole catalog directory.
C29_OnlyCatalogEntries ==
  (last.op = "copyNamed" /\ last.copied # <<>>) =>
    /\ request.name # ""
    /\ last.sourcePath # last.catalogDir
    /\ Len(last.sourcePath) = Len(last.catalogDir) + 1
    /\ IsPrefix(last.catalogDir, last.sourcePath)
    /\ IsDirectory(last.before, last.sourcePath) <=> (request.op = "copySkills")

(***************************************************************************)
(* Properties of the Root Locator.                                         *)
(***************************************************************************)
Located == last.op = "locate" /\ last.pc = "returned"

\* the names the locator looks for
Markers == IF request.locator = "findCliRoot" THEN {"assets"} ELSE {"skills", ".claude"}

Marked(dir) == Markers \subseteq world.entries[dir]

\* the directories on the upward path, the start directory included
UpwardPath == 0..request.dirname

MarkedAbove == {d \in UpwardPath : Marked(d)}

\* the nearest of them is the deepest one
Nearest == CHOOSE d \in MarkedAbove : \A e \in MarkedAbove : e <= d

\* C13, as stated: whenever a directory on the upward path contains the
\* markers, however many levels above the start directory, the locator returns
\* the nearest such directory.
C13_RootDiscovery_AnyDistance ==
  (Located /\ MarkedAbove # {}) => last.result = Nearest

\* C13, amended: when the nearest directory on the upward path that contains
\* the markers is fewer than maxDepth levels above the start directory, the
\* locator returns it, and not a directory without the markers.
C13_RootDiscovery ==
  (Located /\ MarkedAbove # {}
     /\ request.dirname - Nearest < maxDepth(request.locator)) =>
    /\ last.result = Nearest
    /\ Marked(last.result)

C13_Witness ==
  /\ Located
  /\ MarkedAbove # {}
  /\ request.dirname - Nearest >= 3
  /\ request.dirname - Nearest < maxDepth(request.locator)
  /\ Cardinality(MarkedAbove) = 2
  /\ last.result = Nearest

\* C14: when none of the directories examined contains the markers, the run
\* returns (it does not throw) exactly resolve(__dirname, '..', '..').
C14_LocatorFallback ==
  (Located /\ \A d \in Range(last.examined) : ~Marked(d)) =>
    last.result = dirname(dirname(request.dirname))

\* the depth bound was exhausted below a directory that has the markers
C14_Witness ==
  /\ Located
  /\ \A d \in Range(last.examined) : ~Marked(d)
  /\ Len(last.examined) = maxDepth(request.locator)
  /\ MarkedAbove # {}
  /\ last.result = request.dirname - 2

\* C15: the search examines at most maxDepth directories, never one of them
\* twice, nothing after the filesystem root, and the run returns.
C15_Examined ==
  /\ Len(last.examined) <= maxDepth(request.locator)
  /\ \A i \in 1..Len(last.examined) : last.examined[i] = request.dirname - (i - 1)
  /\ (last.examined # <<>> /\ last.examined[Len(last.examined)] = 0) => last.pc # "while"

C15_LocatorTermination == []C15_Examined /\ <>Located

\* the root was reached with depth budget left
C15_Witness ==
  /\ Located
  /\ last.examined # <<>>
  /\ last.examined[Len(last.examined)] = 0
  /\ ~Marked(0)
  /\ Len(last.examined) < maxDepth(request.locator)
  /\ Len(last.examined) >= 2

(***************************************************************************)
(* Properties of the Assistant Detector, checked under SpecDetect.         *)
(***************************************************************************)
\* the assistants whose marker directory exists in a target
PresentAIs(tgt) == {a \in AISet : tgt[AI_DIRECTORIES[a]].kind = "dir"}

\* C8: detectAIType suggests null when no marker directory exists, the one
\* assistant whose marker exists when exactly one does, and 'all' when two or
\* more exist.
C8_SuggestedRule ==
  last.op = "detectAIType" =>
    LET present == PresentAIs(last.before) IN
      /\ Cardinality(present) = 0 => last.result.suggested = "null"
      /\ Cardinality(present) = 1 => last.result.suggested \in present
      /\ Cardinality(present) >= 2 => last.result.suggested = "all"

\* detection ran on a target holding two markers, one with content, and
\* suggested 'all'
C8_Witness ==
  /\ last.op = "detectAIType"
  /\ Cardinality(PresentAIs(last.before)) = 2
  /\ \E a \in PresentAIs(last.before) : last.before[AI_DIRECTORIES[a]].skills.exists
  /\ last.result.suggested = "all"

\* C9: the detected list holds exactly the assistants whose marker directory
\* exists, in the order claude, cursor, windsurf, cline, each once, and never
\* 'all'.
C9_DetectedOrder ==
  last.op = "detectAIType" =>
    LET detected == last.result.detected IN
      /\ detected = SelectSeq(<<"claude", "cursor", "windsurf", "cline">>,
                              LAMBDA a : a \in PresentAIs(last.before))
      /\ \A i, j \in 1..Len(detected) : i # j => detected[i] # detected[j]
      /\ "all" \notin Range(detected)

\* detection ran on a target where the cline and the cursor markers exist
\* and the claude marker does not
C9_Witness ==
  /\ last.op = "detectAIType"
  /\ {"cursor", "cline"} \subseteq PresentAIs(last.before)
  /\ "claude" \notin PresentAIs(last.before)
  /\ Len(last.result.detected) >= 2

\* C10: ensureAIDirectory makes the marker directory when it is absent, leaves
\* an existing one and all it holds as they are, returns the marker path under
\* the target, and is idempotent; it throws only when the directory is absent
\* and the environment refuses the mkdir, and then changes nothing.
C10_EnsureDirectory ==
  last.op = "ensureAIDirectory" =>
    LET m == AI_DIRECTORIES[last.ai] IN
      /\ last.thrown <=> (last.before[m].kind = "absent" /\ last.fault)
      /\ last.thrown => last.after = last.before
      /\ ~last.thrown =>
           /\ last.path = <<m>>
           /\ last.after[m].kind = "dir"
           /\ last.after = [last.before EXCEPT ![m].kind = "dir"]
           /\ \A f \in BOOLEAN :
                ensureAIDirectory(last.ai, last.after, f) =
                  [target |-> last.after, path |-> last.path, thrown |-> FALSE]
      /\ last.before[m].kind = "dir" => last.after = last.before

\* ensureAIDirectory ran on a marker directory that existed and held a skill
\* of the user's, in an environment that refuses a mkdir
C10_Witness ==
  /\ last.op = "ensureAIDirectory"
  /\ last.fault
  /\ last.before[AI_DIRECTORIES[last.ai]].kind = "dir"
  /\ last.before[AI_DIRECTORIES[last.ai]].skills.items["schema"].present
  /\ ~last.thrown

====
